---- MODULE Spec2Model ----
(***************************************************************************)
(* Model of the archive engine (web_app/wasm/source/apk/zip_archiver.cpp)  *)
(* and of the manifest orchestrator (web_app/wasm/source/apk/apk.cpp).     *)
(*                                                                         *)
(* SpecZip drives ZipArchiver::add / contains / extract / extractAll       *)
(* against one container file and one destination path.                    *)
(* SpecApk drives Apk::ApkImpl::makeDebuggable against one package.        *)
(***************************************************************************)
EXTENDS Integers, Sequences, FiniteSets, TLC

VARIABLES
  archive,        \* the container file at zipPath_
  files,          \* files below the destination directory of the current call
                  \* (empty when the call starts): name -> bytes
  pc,             \* position of the archiver call in progress
  op,             \* the archiver call in progress / last finished
  outcome,        \* how the last archiver call ended
  handle,         \* zip write handle held by add
  session,        \* number of member write sessions open on the handle
  scopes,         \* live scoped objects of add's frame, innermost last
  pending,        \* members committed on the open handle, not yet on disk
  member,         \* bytes written into the open write session
  stream,         \* state of add's source stream
  result,         \* writeStreamToOpenZipFile's local `result`
  entries,        \* extractAll's listing, taken once
  idx,            \* extractAll's loop cursor
  trace,          \* archive operations performed by the current call
  written,        \* names of the files written by the current call
  last,           \* record of the last run of extract's body
  containsResult, \* value returned by the last contains
  lastAdd,        \* the (name, bytes) of the last add that returned normally
  apkPc,          \* position inside makeDebuggable
  package,        \* the package makeDebuggable works on
  calls,          \* collaborators makeDebuggable has called so far
  cursor,         \* traverseElements' cursor
  visitor,        \* fields of MyBinaryXmlVisitor
  observed,       \* elements dispatched to the visitor so far
  apkOutcome,     \* how makeDebuggable ended
  raisedAt        \* the statement of makeDebuggable that raised

zipVars == <<archive, files, pc, op, outcome, handle, session, scopes,
             pending, member, stream, result, entries, idx, trace, written,
             last, containsResult, lastAdd>>
apkVars == <<apkPc, package, calls, cursor, visitor, observed, apkOutcome, raisedAt>>
vars == <<zipVars, apkVars>>

---------------------------------------------------------------------------
(* Bounds *)

\* longest source stream handed to add
MaxLen == 3
\* most members the container ever holds
MaxEntries == 2
\* chunk size of the copy loop; stands for BUFSIZ, scaled to the streams above
BufSize == 2
\* most decoded elements of a manifest
MaxElems == 3

\* char fileNameInZip[256]
NameBufSize == 256

Min(a, b) == IF a < b THEN a ELSE b
MinOf(S) == CHOOSE x \in S : \A y \in S : x <= y
Rep(ch, n) == [i \in 1..n |-> ch]

\* A member name is the character `ch` written `len` times, followed by `tail`
\* (characters other than ch): "a" is Name("a", 1), a name of 256 letters a is
\* Name("a", 256).
Name(ch, n) == [ch |-> ch, len |-> n, tail |-> <<>>]
NameLen(nm) == nm.len + Len(nm.tail)
NoName == Name("", 0)

\* member names: two that fit the listing buffer, one that fills it
LongName == Name("a", NameBufSize)
Names == {Name("a", 1), Name("b", 1), LongName}
\* the names add is called with: one that fits the buffer, one that fills it
AddNames == {Name("a", 1), LongName}

---------------------------------------------------------------------------
(* The container and the minizip calls the archiver makes on it *)

\* One member: its name, the uncompressed size its header declares, the bytes
\* that can actually be read back, and what is wrong with it (nothing, the
\* entry cannot be opened for reading, or reading it reports an error).
Entry(n, s, d, f) == [name |-> n, size |-> s, data |-> d, fault |-> f]

NoFile == [exists |-> FALSE, valid |-> FALSE, entries |-> <<>>]
Corrupt == [exists |-> TRUE, valid |-> FALSE, entries |-> <<>>]
ZipOf(es) == [exists |-> TRUE, valid |-> TRUE, entries |-> es]

\* ScopedUnzOpenFile(path).get() != nullptr
CanOpen(arc) == arc.exists /\ arc.valid

\* static_cast<uint32_t>(x) of a 32-bit int, as the two 16-bit halves <<hi, lo>>
U32(x) ==
  IF x >= 0 THEN <<x \div 65536, x % 65536>>
  ELSE LET k == (0 - x) - 1
       IN <<65535 - (k \div 65536), 65535 - (k % 65536)>>

\* value unzReadCurrentFile reports for a failed read (UNZ_ERRNO)
ReadError == -1

\* std::filesystem::exists(path) ? APPEND_STATUS_ADDINZIP : APPEND_STATUS_CREATE
ZipMode(arc) == IF arc.exists THEN "APPEND_STATUS_ADDINZIP" ELSE "APPEND_STATUS_CREATE"

\* openedZipFile->get() != nullptr: an existing file must be a readable zip,
\* a new file must be creatable (createOk is the filesystem's answer)
ZipOpens(arc, createOk) ==
  IF ZipMode(arc) = "APPEND_STATUS_ADDINZIP" THEN arc.valid ELSE createOk

\* The name getAllEntriesInZipFile builds from fileNameInZip[256]: a name
\* shorter than the buffer comes back NUL-terminated; a longer one fills the
\* buffer without terminator and std::string(fileNameInZip) runs on into
\* whatever follows the array (junk), an undefined read.
ListedName(name, junk) ==
  IF NameLen(name) < NameBufSize THEN name
  ELSE IF name.len >= NameBufSize
       THEN [ch |-> name.ch, len |-> NameBufSize, tail |-> junk]
       ELSE [name EXCEPT !.tail = SubSeq(@, 1, NameBufSize - name.len) \o junk]

\* what may follow the unterminated buffer
Junk == {<<>>, <<"?">>}

\* getAllEntriesInZipFile: empty when the container cannot be opened, else one
\* (name, info) pair per member in archive order
GetAllEntriesInZipFile(arc, junk) ==
  IF ~CanOpen(arc) THEN <<>>
  ELSE [i \in 1..Len(arc.entries) |->
          [first |-> ListedName(arc.entries[i].name, junk),
           second |-> arc.entries[i].size]]

\* the archive calls getAllEntriesInZipFile makes
ListingOps(arc) ==
  IF ~CanOpen(arc) THEN <<"unzOpen">>
  ELSE <<"unzOpen", "unzGoToFirstFile">>

\* unzLocateFile(file, name, nullptr): index of the first member whose name
\* equals `name`, 0 when there is none
UnzLocateFile(arc, name) ==
  LET hits == {i \in 1..Len(arc.entries) : arc.entries[i].name = name}
  IN IF hits = {} THEN 0 ELSE MinOf(hits)

\* ZipArchiver::contains
Contains(arc, path) ==
  IF CanOpen(arc) THEN UnzLocateFile(arc, path) # 0 ELSE FALSE

\* std::find_if over the listing: index of the first pair whose name equals
\* pathToExtract, 0 for entries.cend()
FindIf(listing, pathToExtract) ==
  LET hits == {i \in 1..Len(listing) : listing[i].first = pathToExtract}
  IN IF hits = {} THEN 0 ELSE MinOf(hits)

\* unzReadCurrentFile(file, buf, len): the bytes it delivers and its return value
UnzReadCurrentFile(e, len) ==
  IF e.fault = "read" THEN [got |-> <<>>, ret |-> ReadError]
  ELSE LET n == Min(len, Len(e.data))
       IN [got |-> SubSeq(e.data, 1, n), ret |-> n]

\* std::vector<std::byte>(size) after the read: the bytes read, zero-filled
Buffer(size, got) == [i \in 1..size |-> IF i <= Len(got) THEN got[i] ELSE 0]

---------------------------------------------------------------------------
(* ZipArchiver::extract *)

\* The destination paths a caller can name: an existing directory, a path
\* that does not exist, an existing regular file.
DestKinds == {"dir", "absent", "file"}

\* the check with the negation of exists() lost
IsPathValidNoNot(kind) == kind = "dir" \/ kind # "absent"

\* fs::is_directory(path) or !fs::exists(path)
IsPathValid(kind) == kind = "dir" \/ kind = "absent"

\* the check that only looks for a read error
ReadIsFullErrorOnly(bytesRead, fileContentsSize) == bytesRead >= 0

\* static_cast<uint32_t>(bytesRead) != fileContentsSize, negated
ReadIsFull(bytesRead, fileContentsSize) == U32(bytesRead) = U32(fileContentsSize)

\* std::ofstream(fullPathToExtract) opens only below an existing directory;
\* a failed open raises nothing and the write after it is a no-op
OfstreamOpens(kind) == kind = "dir"

\* a run of extract's body that has got nowhere yet
NoRun ==
  [err |-> "", abort |-> FALSE, ops |-> <<>>, located |-> 0, declared |-> 0,
   readDone |-> FALSE, bytesRead |-> 0, buf |-> <<>>, opened |-> FALSE,
   wrote |-> FALSE, file |-> NoName]

Raise(r, what) == [r EXCEPT !.err = what]

\* The body of extract, lines 126-159, for the container `arc`, a destination
\* of kind `kind` and the member `pathToExtract`. `junk` resolves the listing's
\* undefined read, `ub` the &fileContents[0] of an empty vector ("proceed":
\* the build hands a pointer on, "abort": a checked operator[] stops the
\* process).
ExtractBody(arc, kind, pathToExtract, junk, ub) ==
  IF ~IsPathValid(kind)
  THEN Raise(NoRun, "path must be a directory or must not exist")
  ELSE
    LET listing == GetAllEntriesInZipFile(arc, junk)
        r1 == [NoRun EXCEPT !.ops = ListingOps(arc)]
        pathInZip == FindIf(listing, pathToExtract)
    IN
    IF pathInZip = 0 THEN Raise(r1, "path does not exist in archive")
    ELSE
      LET r2 == [r1 EXCEPT !.ops = @ \o <<"unzOpen">>] IN
      IF ~CanOpen(arc) THEN Raise(r2, "archive does not exist")
      ELSE
        LET at == UnzLocateFile(arc, listing[pathInZip].first)
            r3 == [r2 EXCEPT !.ops = @ \o <<"unzLocateFile">>, !.located = at]
        IN
        IF at = 0 THEN Raise(r3, "path does not exist in archive")
        ELSE
          LET e == arc.entries[at]
              r4 == [r3 EXCEPT !.ops = @ \o <<"unzGetCurrentFileInfo", "unzOpenCurrentFile">>,
                               !.declared = e.size]
          IN
          IF e.fault = "open" THEN Raise(r4, "unable to open zip entry in archive")
          ELSE IF e.size = 0 /\ ub = "abort" THEN [r4 EXCEPT !.abort = TRUE]
          ELSE
            LET rd == UnzReadCurrentFile(e, e.size)
                r5 == [r4 EXCEPT !.ops = @ \o <<"unzReadCurrentFile">>,
                                 !.readDone = TRUE,
                                 !.bytesRead = rd.ret,
                                 !.buf = Buffer(e.size, rd.got)]
            IN
            IF ~ReadIsFull(rd.ret, e.size)
            THEN Raise(r5, "unable to read full file in archive")
            ELSE [r5 EXCEPT !.opened = TRUE,
                            !.wrote = OfstreamOpens(kind),
                            !.file = listing[pathInZip].first]

\* the destination directory after a run of extract's body
FilesAfter(fs, r) == IF r.wrote THEN (r.file :> r.buf) @@ fs ELSE fs

---------------------------------------------------------------------------
(* writeStreamToOpenZipFile and ZipArchiver::add *)

\* A source stream: the bytes it holds (n bytes of value 2; members found in
\* the container at start hold bytes of value 1, a zero-filled buffer 0) and
\* the offset at which reading it fails with a hard error (bad < 0: never).
Sources ==
  UNION {{[data |-> Rep(2, n), bad |-> k] : k \in -1..n} : n \in 0..MaxLen}

NoSource == [data |-> <<>>, bad |-> -1]
Opened(src) == [data |-> src.data, bad |-> src.bad, pos |-> 0, eof |-> FALSE, good |-> TRUE]
NoStream == Opened(NoSource)

\* source.read(buf, n) followed by source.gcount(): a stream that is no longer
\* good delivers nothing; otherwise it delivers up to n bytes and, when it
\* falls short, sets eofbit (end of data) or badbit (the hard error)
IstreamRead(st, n) ==
  IF ~st.good THEN [count |-> 0, chunk |-> <<>>, st |-> st]
  ELSE
    LET fails == st.bad >= 0
        limit == IF fails THEN st.bad ELSE Len(st.data)
        count == Min(n, limit - st.pos)
        chunk == SubSeq(st.data, st.pos + 1, st.pos + count)
    IN IF count = n
       THEN [count |-> count, chunk |-> chunk, st |-> [st EXCEPT !.pos = @ + count]]
       ELSE [count |-> count, chunk |-> chunk,
             st |-> [st EXCEPT !.pos = @ + count, !.good = FALSE, !.eof = ~fails]]

\* readCount < readBuffer.size() && !source.eof() && !source.good()
ReadFailed(readCount, st) == readCount < BufSize /\ ~st.eof /\ ~st.good

\* line 95 without the scoped closer
ScopesAfterNewFileNoCloser(sc) == sc

\* scoped objects alive after line 95
ScopesAfterNewFile(sc) == Append(sc, "ScopedZipCloseFileInZip")

\* ~ScopedZipCloseFileInZip: zipCloseFileInZip commits the member as written
CloseFileInZip(n, body) == Entry(n, Len(body), body, "none")

NoAdd == [valid |-> FALSE, name |-> NoName, data |-> <<>>]
NoOp == [kind |-> "none", name |-> NoName, src |-> NoSource, dest |-> "none"]

\* the locals of a call are gone once another call starts
NoAddLocals ==
  /\ handle' = "none" /\ session' = 0 /\ scopes' = <<>> /\ pending' = <<>>
  /\ member' = <<>> /\ stream' = NoStream /\ result' = "ZIP_OK"
NoExtractLocals ==
  /\ entries' = <<>> /\ idx' = 0 /\ trace' = <<>> /\ written' = <<>> /\ last' = NoRun

\* line 92: openZipFile(zipPath_)
Add(src, path, createOk) ==
  /\ pc = "idle"
  /\ Len(archive.entries) < MaxEntries
  /\ op' = [kind |-> "add", name |-> path, src |-> src, dest |-> "none"]
  /\ lastAdd' = NoAdd
  /\ containsResult' = FALSE
  /\ NoExtractLocals
  /\ session' = 0 /\ pending' = <<>> /\ member' = <<>>
  /\ stream' = NoStream /\ result' = "ZIP_OK"
  /\ IF ZipOpens(archive, createOk)
     THEN /\ handle' = "open"
          /\ scopes' = <<"ScopedZipOpen">>
          /\ pc' = "add_new"
          /\ outcome' = "running"
     ELSE /\ handle' = "none"
          /\ scopes' = <<>>
          /\ pc' = "idle"
          /\ outcome' = "raised"
  /\ files' = <<>>
  /\ UNCHANGED <<archive, apkVars>>

\* lines 94-95: zipOpenNewFileInZip_64 and, on ZIP_OK, the scoped closer
AddOpenNewFileInZip(ok) ==
  /\ pc = "add_new"
  /\ IF ok
     THEN /\ session' = session + 1
          /\ scopes' = ScopesAfterNewFile(scopes)
          /\ stream' = Opened(op.src)
          /\ pc' = "add_copy"
     ELSE /\ pc' = "add_exit"
          /\ UNCHANGED <<session, scopes, stream>>
  /\ UNCHANGED <<archive, files, op, outcome, handle, pending, member,
                 result, entries, idx, trace, written, last, containsResult,
                 lastAdd, apkVars>>

\* lines 55-63: one turn of the do-while; writeOk is zipWriteInFileInZip's answer
AddCopyChunk(writeOk) ==
  /\ pc = "add_copy"
  /\ LET rd == IstreamRead(stream, BufSize)
         res == IF ReadFailed(rd.count, rd.st) THEN "ZIP_ERRNO"
                ELSE IF rd.count > 0 THEN (IF writeOk THEN "ZIP_OK" ELSE "ZIP_ERRNO")
                ELSE result
         wrote == ~ReadFailed(rd.count, rd.st) /\ rd.count > 0 /\ writeOk
     IN /\ stream' = rd.st
        /\ result' = res
        /\ member' = IF wrote THEN member \o rd.chunk ELSE member
        /\ pc' = IF res = "ZIP_OK" /\ rd.count > 0 THEN "add_copy" ELSE "add_exit"
  /\ UNCHANGED <<archive, files, op, outcome, handle, session, scopes,
                 pending, entries, idx, trace, written, last, containsResult,
                 lastAdd, apkVars>>

\* ~ScopedZipCloseFileInZip runs zipCloseFileInZip: the write session is closed
SessionsAfter(scope, n) == IF scope = "ScopedZipCloseFileInZip" THEN n - 1 ELSE n

\* ~ScopedZipOpen runs zipClose: the handle is released
HandleAfter(scope, h) == IF scope = "ScopedZipOpen" THEN "none" ELSE h

\* lines 97-98: leaving add destroys its scoped objects, innermost first (the
\* closed session commits its member, the released handle puts the committed
\* members on disk); the call has returned once the last one is gone, and
\* lastAdd then tells whether the member it appended holds every byte of the
\* source
AddExit ==
  /\ pc = "add_exit"
  /\ scopes # <<>>
  /\ LET top == scopes[Len(scopes)]
         rest == SubSeq(scopes, 1, Len(scopes) - 1)
         whole == /\ pending # <<>>
                  /\ pending[Len(pending)].data = op.src.data
     IN /\ scopes' = rest
        /\ session' = SessionsAfter(top, session)
        /\ handle' = HandleAfter(top, handle)
        /\ IF top = "ScopedZipCloseFileInZip"
           THEN /\ pending' = Append(pending, CloseFileInZip(op.name, member))
                /\ UNCHANGED archive
           ELSE /\ archive' = ZipOf(archive.entries \o pending)
                /\ pending' = <<>>
        /\ IF rest = <<>>
           THEN /\ pc' = "idle"
                /\ outcome' = "returned"
                /\ lastAdd' = IF whole
                              THEN [valid |-> TRUE, name |-> op.name, data |-> op.src.data]
                              ELSE NoAdd
                /\ op' = [op EXCEPT !.src = NoSource]
                /\ member' = <<>> /\ stream' = NoStream /\ result' = "ZIP_OK"
           ELSE UNCHANGED <<pc, outcome, lastAdd, op, member, stream, result>>
  /\ UNCHANGED <<files, entries, idx, trace, written, last,
                 containsResult, apkVars>>

---------------------------------------------------------------------------
(* ZipArchiver::contains, ZipArchiver::extract, ZipArchiver::extractAll *)

\* lines 100-108
ContainsCall(path) ==
  /\ pc = "idle"
  /\ op' = [kind |-> "contains", name |-> path, src |-> NoSource, dest |-> "none"]
  /\ containsResult' = Contains(archive, path)
  /\ outcome' = "returned"
  /\ lastAdd' = NoAdd
  /\ NoAddLocals
  /\ NoExtractLocals
  /\ files' = <<>>
  /\ UNCHANGED <<archive, pc, apkVars>>

\* how a run of extract's body ends the call it belongs to
Ending(r) == IF r.abort THEN "aborted" ELSE IF r.err # "" THEN "raised" ELSE "returned"

\* lines 123-161
Extract(pathToExtract, path, junk, ub) ==
  /\ pc = "idle"
  /\ LET r == ExtractBody(archive, path, pathToExtract, junk, ub)
     IN /\ op' = [kind |-> "extract", name |-> pathToExtract, src |-> NoSource, dest |-> path]
        /\ last' = r
        /\ trace' = r.ops
        /\ files' = FilesAfter(<<>>, r)
        /\ written' = IF r.wrote THEN <<r.file>> ELSE <<>>
        /\ outcome' = Ending(r)
        /\ pc' = IF r.abort THEN "aborted" ELSE "idle"
  /\ entries' = <<>> /\ idx' = 0
  /\ containsResult' = FALSE
  /\ NoAddLocals
  /\ UNCHANGED <<archive, lastAdd, apkVars>>

\* lines 110-117: the destination check and the one listing
ExtractAll(path, junk) ==
  /\ pc = "idle"
  /\ op' = [kind |-> "extractAll", name |-> NoName, src |-> NoSource, dest |-> path]
  /\ written' = <<>>
  /\ last' = NoRun
  /\ lastAdd' = NoAdd
  /\ containsResult' = FALSE
  /\ NoAddLocals
  /\ IF ~IsPathValid(path)
     THEN /\ outcome' = "raised"
          /\ trace' = <<>>
          /\ entries' = <<>>
          /\ idx' = 0
          /\ pc' = "idle"
     ELSE LET listing == GetAllEntriesInZipFile(archive, junk)
          IN /\ entries' = listing
             /\ trace' = ListingOps(archive)
             /\ idx' = 1
             /\ outcome' = IF listing = <<>> THEN "returned" ELSE "running"
             /\ pc' = IF listing = <<>> THEN "idle" ELSE "extract_all"
  /\ files' = <<>>
  /\ UNCHANGED <<archive, apkVars>>

\* lines 118-120: one turn of the loop, extract(entry.first, path); what
\* extract raises leaves extractAll at once
ExtractAllStep(junk, ub) ==
  /\ pc = "extract_all"
  /\ LET r == ExtractBody(archive, op.dest, entries[idx].first, junk, ub)
     IN /\ last' = r
        /\ trace' = trace \o r.ops
        /\ files' = FilesAfter(files, r)
        /\ written' = IF r.wrote THEN Append(written, r.file) ELSE written
        /\ IF Ending(r) = "returned"
           THEN /\ idx' = idx + 1
                /\ pc' = IF idx = Len(entries) THEN "idle" ELSE "extract_all"
                /\ outcome' = IF idx = Len(entries) THEN "returned" ELSE "running"
           ELSE /\ idx' = idx
                /\ pc' = IF r.abort THEN "aborted" ELSE "idle"
                /\ outcome' = Ending(r)
  /\ UNCHANGED <<archive, op, handle, session, scopes, pending, member,
                 stream, result, entries, containsResult, lastAdd, apkVars>>

---------------------------------------------------------------------------
(* The archiver as a state machine *)

\* what a member found in a container at start may look like: sound, empty,
\* shorter than its header declares, unreadable, unopenable
SoundEntries == {Entry(n, 1, <<1>>, "none") : n \in Names}
FaultyEntries ==
  {Entry(Name("b", 1), 0, <<>>, "none"), Entry(Name("b", 1), 2, <<1>>, "none"),
   Entry(Name("b", 1), 1, <<1>>, "read"), Entry(Name("b", 1), 1, <<1>>, "open")}
InitEntries == SoundEntries \cup FaultyEntries
InitArchives ==
  {NoFile, Corrupt, ZipOf(<<>>)}
    \cup {ZipOf(<<e>>) : e \in InitEntries}
    \cup {ZipOf(<<e, f>>) : e \in SoundEntries, f \in InitEntries}

ApkIdle ==
  /\ apkPc = "idle"
  /\ package = [files |-> <<>>, contents |-> <<>>, elements |-> <<>>]
  /\ calls = <<>>
  /\ cursor = 0
  /\ visitor = [apkPath_ |-> "apk"]
  /\ observed = <<>>
  /\ apkOutcome = "none"
  /\ raisedAt = "none"

ZipIdle ==
  /\ files = <<>>
  /\ pc = "idle"
  /\ op = NoOp
  /\ outcome = "none"
  /\ handle = "none"
  /\ session = 0
  /\ scopes = <<>>
  /\ pending = <<>>
  /\ member = <<>>
  /\ stream = NoStream
  /\ result = "ZIP_OK"
  /\ entries = <<>>
  /\ idx = 0
  /\ trace = <<>>
  /\ written = <<>>
  /\ last = NoRun
  /\ containsResult = FALSE
  /\ lastAdd = NoAdd

InitZip ==
  /\ archive \in InitArchives
  /\ ZipIdle
  /\ ApkIdle

\* the answers of the environment that can make a difference: whether a new
\* file can be created, what follows an unterminated name buffer, what
\* operator[] on an empty vector does
CreateAnswers(arc) == IF arc.exists THEN {TRUE} ELSE BOOLEAN
JunkOf(arc) ==
  IF \E i \in 1..Len(arc.entries) : NameLen(arc.entries[i].name) >= NameBufSize
  THEN Junk ELSE {<<>>}
UbOf(arc) ==
  IF \E i \in 1..Len(arc.entries) : arc.entries[i].size = 0
  THEN {"proceed", "abort"} ELSE {"proceed"}

NextZip ==
  \/ \E src \in Sources, path \in AddNames, createOk \in CreateAnswers(archive) :
       Add(src, path, createOk)
  \/ \E ok \in BOOLEAN : AddOpenNewFileInZip(ok)
  \/ \E writeOk \in BOOLEAN : AddCopyChunk(writeOk)
  \/ AddExit
  \/ \E path \in Names : ContainsCall(path)
  \/ \E pathToExtract \in Names, path \in DestKinds, junk \in JunkOf(archive), ub \in UbOf(archive) :
       Extract(pathToExtract, path, junk, ub)
  \/ \E path \in DestKinds, junk \in JunkOf(archive) : ExtractAll(path, junk)
  \/ \E junk \in JunkOf(archive), ub \in UbOf(archive) : ExtractAllStep(junk, ub)

SpecZip == InitZip /\ [][NextZip]_vars

---------------------------------------------------------------------------
(* Apk::ApkImpl::makeDebuggable *)

ANDROID_MANIFEST == "AndroidManifest.xml"
ANDROID_MANIFEST_TAG_APPLICATION == "application"

\* what ApkParser::getFiles and ApkParser::getFileContents may hand back
FileLists ==
  {<<>>, <<"classes.dex">>, <<ANDROID_MANIFEST>>, <<"classes.dex", ANDROID_MANIFEST>>}
Contents == {<<>>, <<3, 0>>}

\* the decoded elements of a manifest
Elements ==
  {[kind |-> k, tag |-> t] : k \in {"start", "end"},
                             t \in {ANDROID_MANIFEST_TAG_APPLICATION, "manifest"}}
    \cup {[kind |-> "cdata", tag |-> "manifest"], [kind |-> "invalid", tag |-> ""]}
ElementSeqs == UNION {[1..n -> Elements] : n \in 0..MaxElems}

\* the check that only asks for a non-empty listing
HasAndroidManifestAnyFile(fs) == fs # <<>>

\* std::find(files.cbegin(), files.cend(), ANDROID_MANIFEST) != files.end()
HasAndroidManifest(fs) == \E i \in 1..Len(fs) : fs[i] = ANDROID_MANIFEST

\* contents.empty()
ContentsEmpty(c) == Len(c) = 0

\* a start-tag or end-tag named `tag`
IsTag(e, tag) == e.kind \in {"start", "end"} /\ e.tag = tag

\* BinaryXml::hasElement: at least one start-tag or end-tag named `tag`
HasElement(elems, tag) == \E i \in 1..Len(elems) : IsTag(elems[i], tag)

\* MyBinaryXmlVisitor::visit: the four overloads are const and only log, so
\* the visitor is after a visit what it was before
Visit(v, e) == v

\* the invalid-element overload that only logs
VisitRaisesNever(e) == FALSE

\* visit(InvalidXmlTagElement) throws MalformedAndroidManifestException
VisitRaises(e) == e.kind = "invalid"

NoPackage == [files |-> <<>>, contents |-> <<>>, elements |-> <<>>]

\* lines 47-53
MakeDebuggable(fs, c) ==
  /\ apkPc \in {"idle", "done"}
  /\ package' = [files |-> fs, contents |-> c, elements |-> <<>>]
  /\ calls' = <<"getFiles">>
  /\ cursor' = 0
  /\ visitor' = [apkPath_ |-> "apk"]
  /\ observed' = <<>>
  /\ IF ~HasAndroidManifest(fs)
     THEN /\ apkOutcome' = "MissingAndroidManifestException"
          /\ raisedAt' = "files"
          /\ apkPc' = "done"
     ELSE /\ apkOutcome' = "running"
          /\ raisedAt' = "none"
          /\ apkPc' = "read"
  /\ UNCHANGED zipVars

\* lines 55-59
ReadContents ==
  /\ apkPc = "read"
  /\ calls' = Append(calls, "getFileContents")
  /\ IF ContentsEmpty(package.contents)
     THEN /\ apkOutcome' = "MissingAndroidManifestException"
          /\ raisedAt' = "contents"
          /\ apkPc' = "done"
     ELSE /\ apkPc' = "decode"
          /\ UNCHANGED <<apkOutcome, raisedAt>>
  /\ UNCHANGED <<package, cursor, visitor, observed, zipVars>>

\* lines 61-65: the decoder turns the contents into elements, then the probe
Decode(elems) ==
  /\ apkPc = "decode"
  /\ package' = [package EXCEPT !.elements = elems]
  /\ calls' = calls \o <<"BinaryXml", "hasElement">>
  /\ IF ~HasElement(elems, ANDROID_MANIFEST_TAG_APPLICATION)
     THEN /\ apkOutcome' = "MalformedAndroidManifestException"
          /\ raisedAt' = "probe"
          /\ apkPc' = "done"
          /\ UNCHANGED cursor
     ELSE /\ apkPc' = "traverse"
          /\ cursor' = 1
          /\ UNCHANGED <<apkOutcome, raisedAt>>
  /\ UNCHANGED <<visitor, observed, zipVars>>

\* line 100: traverseElements hands the next element to the visitor; what the
\* visitor throws leaves makeDebuggable at once
TraverseStep ==
  /\ apkPc = "traverse"
  /\ LET e == package.elements[cursor]
     IN /\ calls' = IF cursor = 1 THEN Append(calls, "traverseElements") ELSE calls
        /\ observed' = Append(observed, e)
        /\ visitor' = Visit(visitor, e)
        /\ IF VisitRaises(e)
           THEN /\ apkOutcome' = "MalformedAndroidManifestException"
                /\ raisedAt' = "traversal"
                /\ apkPc' = "done"
                /\ UNCHANGED cursor
           ELSE /\ cursor' = cursor + 1
                /\ apkPc' = IF cursor = Len(package.elements) THEN "done" ELSE "traverse"
                /\ apkOutcome' = IF cursor = Len(package.elements) THEN "returned" ELSE apkOutcome
                /\ UNCHANGED raisedAt
  /\ UNCHANGED <<package, zipVars>>

InitApk ==
  /\ archive = NoFile
  /\ ZipIdle
  /\ ApkIdle

NextApk ==
  \/ \E fs \in FileLists, c \in Contents : MakeDebuggable(fs, c)
  \/ ReadContents
  \/ \E elems \in ElementSeqs : Decode(elems)
  \/ TraverseStep

SpecApk == InitApk /\ [][NextApk]_vars

---------------------------------------------------------------------------
(* Properties of the archiver, checked under SpecZip *)

\* the call has run to its end (it returned or raised)
Finished(kind) == pc = "idle" /\ op.kind = kind /\ outcome \in {"returned", "raised"}

\* C1: round trip. After add(S, M) has returned with the whole of S copied,
\* extracting M (a name that fits the listing buffer, into a valid
\* destination) returns and yields exactly the bytes of S, whatever the
\* container held before, a member named M included.
C1_RoundTrip ==
  (/\ Finished("extract")
   /\ lastAdd.valid
   /\ op.name = lastAdd.name
   /\ NameLen(op.name) < NameBufSize
   /\ op.dest \in {"dir", "absent"})
    => (outcome = "returned" /\ last.buf = lastAdd.data)

\* C2: no silent partial success. An add that returns normally has appended a
\* member M holding every byte of S, and an extract that returns normally has
\* left the file dir/M holding exactly the member's bytes.
C2_NoSilentPartialSuccess ==
  /\ (Finished("add") /\ outcome = "returned")
       => (/\ lastAdd.valid
           /\ archive.entries # <<>>
           /\ archive.entries[Len(archive.entries)]
                = Entry(op.name, Len(lastAdd.data), lastAdd.data, "none"))
  /\ (Finished("extract") /\ outcome = "returned")
       => (/\ op.name \in DOMAIN files
           /\ files[op.name] = last.buf)

\* C3: exact size. A run of extract's body that gets as far as the destination
\* file holds a buffer as long as the entry's declared uncompressed size, and
\* a read that returns fewer bytes than declared makes the call raise with no
\* destination file opened or written for that member.
C3_ExactSize ==
  (op.kind \in {"extract", "extractAll"}) =>
    /\ last.opened => (last.readDone /\ Len(last.buf) = last.declared
                        /\ last.bytesRead = last.declared)
    /\ (last.readDone /\ last.bytesRead < last.declared)
         => (/\ outcome = "raised"
             /\ last.err = "unable to read full file in archive"
             /\ ~last.opened
             /\ ~last.wrote
             /\ (op.kind = "extract" => (written = <<>> /\ files = <<>>)))

\* a short read has made extract raise
C3_Witness ==
  /\ Finished("extract")
  /\ outcome = "raised"
  /\ last.readDone
  /\ last.bytesRead >= 0
  /\ last.bytesRead < last.declared

\* C4: destination precondition. extract and extractAll called with a
\* destination that exists and is not a directory raise before any archive
\* operation is performed and write no file.
C4_DestinationPrecondition ==
  (op.kind \in {"extract", "extractAll"} /\ op.dest = "file") =>
    /\ pc = "idle"
    /\ outcome = "raised"
    /\ trace = <<>>
    /\ written = <<>>
    /\ files = <<>>
    /\ ~last.opened

\* extractAll on a container with members, into a path that is a regular file
C4_Witness ==
  /\ Finished("extractAll")
  /\ op.dest = "file"
  /\ outcome = "raised"
  /\ Len(archive.entries) > 1

\* C7: existence symmetry. contains(M) is true exactly when M is among the
\* names getAllEntriesInZipFile returns, and a container that cannot be opened
\* gives false and the empty listing.
C7_ExistenceSymmetry ==
  Finished("contains") =>
    \A junk \in JunkOf(archive) :
      LET listing == GetAllEntriesInZipFile(archive, junk)
      IN /\ containsResult = (\E i \in 1..Len(listing) : listing[i].first = op.name)
         /\ ~CanOpen(archive) => (~containsResult /\ listing = <<>>)

\* every member name fits the listing buffer
NamesFit == \A i \in 1..Len(archive.entries) : NameLen(archive.entries[i].name) < NameBufSize

\* C8: extractAll stops at the first entry whose extraction fails: when it
\* raises at entry idx (of a container whose names all fit the listing
\* buffer), the files of the entries listed before idx have been written, in
\* listing order, and are on disk, and nothing else was written.
C8_StopsAtFirstFailure ==
  (Finished("extractAll") /\ outcome = "raised" /\ idx >= 1 /\ NamesFit) =>
    /\ written = [j \in 1..(idx - 1) |-> entries[j].first]
    /\ \A j \in 1..(idx - 1) : entries[j].first \in DOMAIN files

\* C9: scoped release in add. At most one write session is ever open, a
\* session is open only on an open handle, and once add has returned or
\* raised no session is open, the handle is released and no scoped object is
\* left.
C9_ScopedRelease ==
  /\ session \in {0, 1}
  /\ (session = 1 => handle = "open")
  /\ (pc = "idle" /\ op.kind = "add")
       => (session = 0 /\ handle = "none" /\ scopes = <<>> /\ pending = <<>>)

\* add has returned after a write session that ended on a failed copy
C9_Witness ==
  /\ Finished("add")
  /\ outcome = "returned"
  /\ ~lastAdd.valid
  /\ archive.entries # <<>>
  /\ archive.entries[Len(archive.entries)].name = op.name
  /\ archive.entries[Len(archive.entries)].data # <<>>

---------------------------------------------------------------------------
(* Properties of makeDebuggable, checked under SpecApk *)

ManifestListed == \E i \in 1..Len(package.files) : package.files[i] = "AndroidManifest.xml"
IsApplicationTag(e) == e.kind \in {"start", "end"} /\ e.tag = "application"

\* C5: a package without AndroidManifest.xml in its file list, or with empty
\* manifest contents, never reaches the decoder, the probe or the traversal,
\* and makeDebuggable ends with the missing-manifest error.
C5_MissingManifestFirst ==
  (apkPc # "idle" /\ (~ManifestListed \/ package.contents = <<>>)) =>
    /\ \A i \in 1..Len(calls) : calls[i] \notin {"BinaryXml", "hasElement", "traverseElements"}
    /\ observed = <<>>
    /\ apkPc = "done" => apkOutcome = "MissingAndroidManifestException"

\* the manifest is listed but its contents are empty
C5_Witness ==
  /\ apkPc = "done"
  /\ ManifestListed
  /\ package.contents = <<>>
  /\ apkOutcome = "MissingAndroidManifestException"
  /\ raisedAt = "contents"

\* the decoded elements hold an invalid element with no application tag before it
ScenarioE ==
  \E i \in 1..Len(package.elements) :
    /\ package.elements[i].kind = "invalid"
    /\ \A j \in 1..(i - 1) : ~IsApplicationTag(package.elements[j])

\* C6 as stated: in scenario E the malformed-manifest error comes from the
\* full traversal, not from the probe.
C6_RaisedByTraversal ==
  (apkPc = "done" /\ ScenarioE) =>
    (apkOutcome = "MalformedAndroidManifestException" /\ raisedAt = "traversal")

\* C6: in scenario E makeDebuggable raises the malformed-manifest error; it
\* comes from the full traversal when an application tag follows somewhere in
\* the sequence, and from the probe when the sequence holds none.
C6_RaisedByTraversalOrProbe ==
  (apkPc = "done" /\ ScenarioE) =>
    /\ apkOutcome = "MalformedAndroidManifestException"
    /\ raisedAt = IF \E i \in 1..Len(package.elements) : IsApplicationTag(package.elements[i])
                  THEN "traversal" ELSE "probe"

\* an invalid element, then an application tag: the traversal has raised
C6_Witness ==
  /\ apkPc = "done"
  /\ ScenarioE
  /\ \E i \in 1..Len(package.elements) : IsApplicationTag(package.elements[i])
  /\ raisedAt = "traversal"
  /\ observed # <<>>
  /\ observed[Len(observed)].kind = "invalid"

\* what a caller can tell of the detection once makeDebuggable is over: a
\* normal return is the only sign of success the operation gives
TerminalState ==
  IF apkOutcome = "returned" THEN "TARGET_FOUND"
  ELSE IF apkOutcome \in {"none", "running"} THEN "none"
  ELSE "failed"

BothObserved ==
  /\ \E i \in 1..Len(observed) : observed[i] = [kind |-> "start", tag |-> "application"]
  /\ \E i \in 1..Len(observed) : observed[i] = [kind |-> "end", tag |-> "application"]

\* C10: when the traversal completes without error the terminal state is
\* TARGET_FOUND exactly when a start-tag and an end-tag named application
\* were both observed.
C10_FoundIffBothObserved ==
  (apkPc = "done" /\ apkOutcome = "returned") =>
    (TerminalState = "TARGET_FOUND" <=> BothObserved)

====
